---- MODULE Spec2Model ----
(***************************************************************************)
(* larry_rgb: the gradient effect engine (src/src/larry_rgb/__init__.py).  *)
(*                                                                         *)
(* The engine is asyncio code: one event loop runs one task at a time and  *)
(* a task keeps the processor until it suspends (a contended lock          *)
(* acquisition, a pacing sleep) or finishes.  `cur` is the task that is    *)
(* executing (0: the event loop is choosing).  Every action is one piece   *)
(* of straight-line code of the task `cur`, or the event loop resuming a   *)
(* suspended task or starting a new call.                                  *)
(***************************************************************************)
EXTENDS Integers, Sequences, FiniteSets, TLC

(* ------------------------------ bounds -------------------------------- *)
MaxPlugins == 3          \* plugin() invocations per process
MaxResets  == 1          \* direct Effect.reset() calls
MaxStops   == 1          \* Effect.stop() calls
MaxCalls   == 4          \* calls of all three kinds together
MaxEffects == 2          \* Effect instances constructed (cache_clear hook)
MaxValue   == 3          \* ensure_range: values and range ends are 0..MaxValue
MaxDevices == 2          \* make_client: devices the OpenRGB server reports
MaxLeds    == 3          \* make_client: LEDs of a device
MaxZones   == 2          \* make_client: zones of a device
MaxPixels  == 3          \* get_colors: pixels of a raster file
MaxShapes  == 2          \* get_colors: shapes of an SVG file
MaxWidth   == 2          \* get_colors: pixels a shape covers when rendered
MaxCount   == 2          \* get_colors: color_count is 1..MaxCount
MaxQuality == 2          \* get_colors: quality is 1..MaxQuality

\* every call is a task; the slots are set aside per entry point
PluginTasks == 1..MaxPlugins
ResetTasks  == (MaxPlugins + 1)..(MaxPlugins + MaxResets)
StopTasks   == (MaxPlugins + MaxResets + 1)..(MaxPlugins + MaxResets + MaxStops)
Tasks       == PluginTasks \cup ResetTasks \cup StopTasks

(* ------------------------------ colours ------------------------------- *)
\* A colour is one channel value; None is the absent colour.
None  == 0
RED   == 10
GREEN == 20
BLUE  == 30

(* ----------------------- host inputs (colors, config) ----------------- *)
\* what Config's getters return for the host's configuration
\* (intensity is in tenths: 15 is 1.5)
Inputs ==
  << \* 1: image colours, palette capped at 2
     [colors |-> <<RED, GREEN, BLUE>>,
      cfg |-> [address |-> 1, steps |-> 2, interval |-> 1,
               pause_after_fade |-> 0, max_palette_size |-> 2,
               colors |-> <<>>, pastelize |-> FALSE, intensity |-> 0]],
     \* 2: explicit colours, another endpoint, a pause and a finer gradient
     [colors |-> <<RED, GREEN, BLUE>>,
      cfg |-> [address |-> 2, steps |-> 5, interval |-> 6,
               pause_after_fade |-> 20, max_palette_size |-> 2,
               colors |-> <<BLUE, RED, GREEN>>, pastelize |-> FALSE, intensity |-> 0]],
     \* 3: the host supplies no colours, none are configured, intensity 1.5
     [colors |-> <<>>,
      cfg |-> [address |-> 1, steps |-> 2, interval |-> 1,
               pause_after_fade |-> 0, max_palette_size |-> 2,
               colors |-> <<>>, pastelize |-> TRUE, intensity |-> 15]] >>

InputIds == 1..Len(Inputs)
Cfg(a)   == Inputs[a].cfg

(* ------------------------------ state --------------------------------- *)
VARIABLES
  effect_cache,   \* get_effect's cache: 0 (empty) or the id of the cached Effect
  nEffects,       \* number of Effect() constructions so far
  running,        \* Effect.running
  colors,         \* Effect.colors: itertools.cycle as [list, pos]
  config,         \* Effect.config: 0 (attribute not set) or the input id of the Config
  rgb,            \* cached_property Effect.rgb: 0 (not computed) or the address connected to
  lock,           \* Effect.lock (asyncio.Lock): [locked, holder, waiters, woken]
  cur,            \* the task that is executing, 0 when the event loop is idle
  task,           \* per call: position, arguments and locals
  hist,           \* history: the arguments of the reset that installed the cycle
  range_call,     \* a call of ensure_range: arguments, position, the exception raised
  openrgb_client, \* a call of hw.make_client: the client's devices, position
  colors_call     \* a call of colorlib.get_colors: arguments, position, locals, outcome

vars == <<effect_cache, nEffects, running, colors, config, rgb, lock, cur, task, hist,
          range_call, openrgb_client, colors_call>>

\* the module-level function ensure_range, hardware.make_client and
\* colorlib.get_colors, which take no part in the engine's steps
lib == <<range_call, openrgb_client, colors_call>>

engine == <<running, colors, config, rgb, lock, hist>>

(* --------------------------- pure functions --------------------------- *)
Min(a, b) == IF a < b THEN a ELSE b

\* Color.dominant(colors, n) (larry): at most n colours, in dominance order
Dominant(cs, n) == SubSeq(cs, 1, Min(n, Len(cs)))

\* color.pastelize() (larry): a lighter colour of the same hue
Pastelize(c) == c + 5

\* color.intensify(amount) (larry): the saturation scaled by 1 + amount and
\* clamped; amount 0 leaves the colour as it is
Intensify(c, k) == Min(c + k \div 5, RED + GREEN + BLUE)

\* (variant: the ends of the range are excluded)
ensure_range_exclusive(value, lo, hi) == lo < value /\ value < hi

\* ensure_range(value, value_range): TRUE when it returns, FALSE when it raises
ensure_range(value, lo, hi) == lo <= value /\ value <= hi

\* (variant: the host's colours are preferred to the configured ones)
Pipeline_prefers_input(a) ==
  LET base == IF Inputs[a].colors # <<>>
                THEN Dominant(Inputs[a].colors, Cfg(a).max_palette_size)
                ELSE Cfg(a).colors
      past == IF Cfg(a).pastelize THEN [i \in 1..Len(base) |-> Pastelize(base[i])]
              ELSE base
  IN  [i \in 1..Len(past) |-> Intensify(past[i], Cfg(a).intensity)]

\* Effect.reset's colour pipeline, lines 80-91
Pipeline(a) ==
  LET base == IF Cfg(a).colors # <<>> THEN Cfg(a).colors
              ELSE Dominant(Inputs[a].colors, Cfg(a).max_palette_size)
      past == IF Cfg(a).pastelize THEN [i \in 1..Len(base) |-> Pastelize(base[i])]
              ELSE base
  IN  [i \in 1..Len(past) |-> Intensify(past[i], Cfg(a).intensity)]

\* itertools.cycle(colors)
Cycle(cs) == [list |-> cs, pos |-> 0]

CycleEmpty(c) == c.list = <<>>
CyclePeek(c)  == c.list[c.pos + 1]
CycleAdv(c)   == [c EXCEPT !.pos = (c.pos + 1) % Len(c.list)]

\* (variant: both endpoints are always drawn from the cycle)
get_gradient_colors_draws_two(c, prev) ==
  [start |-> CyclePeek(c), stop |-> CyclePeek(CycleAdv(c)),
   cycle |-> CycleAdv(CycleAdv(c))]

\* colorlib.get_gradient_colors: [start, stop, cycle after the call];
\* only evaluated on a cycle that is not empty
get_gradient_colors(c, prev) ==
  IF prev # None
    THEN [start |-> prev, stop |-> CyclePeek(c), cycle |-> CycleAdv(c)]
    ELSE [start |-> CyclePeek(c), stop |-> CyclePeek(CycleAdv(c)),
          cycle |-> CycleAdv(CycleAdv(c))]

\* Color.gradient(start, stop, steps) (larry), position i of 1..steps, steps >= 2
GradientAt(start, stop, steps, i) ==
  IF stop >= start
    THEN start + ((stop - start) * (i - 1)) \div (steps - 1)
    ELSE start - ((start - stop) * (i - 1)) \div (steps - 1)

(* ------------------------------ lock ---------------------------------- *)
NewLock == [locked |-> FALSE, holder |-> 0, waiters |-> <<>>, woken |-> {}]

\* asyncio.Lock.acquire takes the lock at once only when it is free and no
\* waiter is queued (a woken waiter stays queued until it resumes)
CanAcquire(l) == ~l.locked /\ l.waiters = <<>>

Acquired(l, t) == [l EXCEPT !.locked = TRUE, !.holder = t]

Enqueued(l, t) == [l EXCEPT !.waiters = Append(l.waiters, t)]

\* the woken head of the queue resumes and owns the lock
Resumed(l, t) ==
  [l EXCEPT !.locked = TRUE, !.holder = t,
            !.waiters = Tail(l.waiters), !.woken = {}]

\* asyncio.Lock.release: unlock and wake the first waiter
Released(l) ==
  [l EXCEPT !.locked = FALSE, !.holder = 0,
            !.woken = IF l.waiters # <<>> THEN {Head(l.waiters)} ELSE {}]

WaitPCs == {"reset_wait", "run_wait", "loop_wait", "stop_wait"}

WaitOf(p) ==
  CASE p = "reset" -> "reset_wait"
    [] p = "run"   -> "run_wait"
    [] p = "loop"  -> "loop_wait"
    [] p = "stop"  -> "stop_wait"

SectionOf(p) ==
  CASE p \in {"reset", "reset_wait"} -> "reset_cs"
    [] p \in {"run", "run_wait"}     -> "run_cs"
    [] p \in {"loop", "loop_wait"}   -> "seg_start"
    [] p \in {"stop", "stop_wait"}   -> "stop_cs"

\* `async with self.lock:` reached by task t at p with the lock as l: the
\* block is entered at once, or the task queues and is suspended
Enter(l, t, p) ==
  IF CanAcquire(l)
    THEN [lock |-> Acquired(l, t), pc |-> SectionOf(p), cur |-> t]
    ELSE [lock |-> Enqueued(l, t), pc |-> WaitOf(p), cur |-> 0]

(* ------------------------------ tasks --------------------------------- *)
\* the locals of set_gradient; stale: since the call's last segment began a
\* reset completed or another call drew from the cycle;
\* pushed, sleeps: the colours sent and the sleeps taken by this call so far
NoSeg == [start |-> None, stop |-> None, steps |-> 0, pause |-> 0,
          interval |-> 0, i |-> 0, prev |-> None, stale |-> FALSE,
          pushed |-> <<>>, sleeps |-> <<>>]

\* arg: the (colors, config) the call was given; called: what plugin called;
\* alive: is_alive() as plugin saw it; resetArg: the arguments of the reset
\* this call has carried out; pre: running as stop found it;
\* sawStop: a stop() returned while this call was in run's loop
NewTask ==
  [pc |-> "unused", arg |-> 0, eff |-> 0, branch |-> "none",
   alive |-> FALSE, newcolors |-> <<>>, stop_color |-> None, seg |-> NoSeg,
   called |-> <<>>, resetArg |-> 0, pre |-> FALSE, sawStop |-> FALSE]

\* a call that has returned or raised keeps nothing
Ended == [NewTask EXCEPT !.pc = "done"]

NewHist == [cycleFrom |-> 0]

KindOf(t) ==
  CASE t \in PluginTasks -> "plugin"
    [] t \in ResetTasks  -> "reset"
    [] t \in StopTasks   -> "stop"

Calls == Cardinality({t \in Tasks : task[t].pc # "unused"})

\* the slots of one entry point are used in order
Unused(t) ==
  /\ task[t].pc = "unused"
  /\ Calls < MaxCalls
  /\ \A u \in Tasks : (u < t /\ KindOf(u) = KindOf(t)) => task[u].pc # "unused"

Finished(t) == task[t].pc \in {"unused", "done"}

At(t, p) == cur = t /\ task[t].pc = p

(* ------------------------------ Init ---------------------------------- *)
\* no Effect has been constructed, no call has been made
EngineInit ==
  /\ effect_cache = 0
  /\ nEffects = 0
  /\ running = FALSE
  /\ colors = Cycle(<<>>)
  /\ config = 0
  /\ rgb = 0
  /\ lock = NewLock
  /\ cur = 0
  /\ task = [t \in Tasks |-> NewTask]
  /\ hist = NewHist

NoCall == [pc |-> "none", value |-> 0, lo |-> 0, hi |-> 0, error |-> <<>>, exc |-> <<>>]

NoClient == [pc |-> "none", devices |-> <<>>, i |-> 0]

\* no call of get_colors: no file, no temporary file, no ColorThief
NoColors ==
  [pc |-> "none", file |-> [kind |-> "none"], color_count |-> 0, quality |-> 0,
   caught |-> <<>>, conversions |-> 0, tmp |-> <<>>, thief |-> <<>>,
   palette |-> <<>>, exc |-> <<>>]

Init ==
  /\ EngineInit
  /\ range_call = NoCall
  /\ openrgb_client = NoClient
  /\ colors_call = NoColors

(* --------------------------- get_effect ------------------------------- *)
\* (variant: nothing is cached, every call constructs)
get_effect_uncached == [eff |-> nEffects + 1, made |-> TRUE]

\* functools.cache on a function without arguments: construct on a miss only
get_effect ==
  IF effect_cache # 0 THEN [eff |-> effect_cache, made |-> FALSE]
                      ELSE [eff |-> nEffects + 1, made |-> TRUE]

\* a call starts as a task of its own; its first statement is
\* effect = get_effect(), and a miss runs Effect.__init__ (the lock apart)
GetEffect(t) ==
  /\ cur = 0 /\ Unused(t)
  /\ get_effect.made => nEffects < MaxEffects
  /\ effect_cache' = get_effect.eff
  /\ nEffects' = IF get_effect.made THEN nEffects + 1 ELSE nEffects
  /\ IF get_effect.made
       THEN /\ running' = FALSE
            /\ colors' = Cycle(<<>>)
            /\ config' = 0
            /\ rgb' = 0
            /\ hist' = NewHist
       ELSE UNCHANGED <<running, colors, config, rgb, hist>>
  /\ UNCHANGED lib

\* self.lock of the Effect that get_effect returns
LockOf(g) == IF g.made THEN NewLock ELSE lock

\* Effect.reset called directly
ResetCall(t, a) ==
  /\ t \in ResetTasks
  /\ GetEffect(t)
  /\ task' = [task EXCEPT ![t] = [NewTask EXCEPT !.pc = "reset", !.arg = a,
                                                 !.eff = get_effect.eff]]
  /\ lock' = LockOf(get_effect)
  /\ cur' = t

\* Effect.stop called directly, up to its `async with self.lock`
StopCall(t) ==
  /\ t \in StopTasks
  /\ GetEffect(t)
  /\ LET e == Enter(LockOf(get_effect), t, "stop") IN
       /\ task' = [task EXCEPT ![t] = [NewTask EXCEPT !.pc = e.pc, !.eff = get_effect.eff]]
       /\ lock' = e.lock
       /\ cur' = e.cur

\* get_effect.cache_clear(): the hook the tests call between runs, when no
\* call on the old engine is in progress
CacheClear ==
  /\ cur = 0 /\ effect_cache # 0 /\ nEffects < MaxEffects
  /\ \A t \in Tasks : Finished(t)
  /\ effect_cache' = 0
  /\ UNCHANGED <<lib, nEffects, engine, cur, task>>

(* ------------------------------ plugin -------------------------------- *)
\* Effect.is_alive of the Effect that get_effect returns
is_alive(g) == IF g.made THEN FALSE ELSE running

\* (variant: run goes straight to setting the flag)
RunEntry_without_reset == "run"

\* run's first statement: await self.reset(colors, config)
RunEntry == "reset"

\* (variant: plugin always starts the engine)
PluginBranch_always_run(alive) == "run"

\* func = effect.reset if effect.is_alive() else effect.run
PluginBranch(alive) == IF alive THEN "reset" ELSE "run"

\* plugin(colors, config) up to the first statement of the method it awaits
PluginCall(t, a) ==
  /\ t \in PluginTasks
  /\ GetEffect(t)
  /\ LET alive == is_alive(get_effect)
         func  == PluginBranch(alive)
     IN task' = [task EXCEPT ![t] =
                   [NewTask EXCEPT !.pc = IF func = "run" THEN RunEntry ELSE "reset",
                                   !.arg = a, !.eff = get_effect.eff,
                                   !.alive = alive, !.branch = func,
                                   !.called = <<func>>]]
  /\ lock' = LockOf(get_effect)
  /\ cur' = t

\* the event loop resumes the waiter that release() woke
LockResume(t) ==
  /\ cur = 0 /\ task[t].pc \in WaitPCs /\ t \in lock.woken
  /\ lock' = Resumed(lock, t)
  /\ task' = [task EXCEPT ![t].pc = SectionOf(task[t].pc)]
  /\ cur' = t
  /\ UNCHANGED <<lib, effect_cache, nEffects, running, colors, config, rgb, hist>>

(* ------------------------------ reset --------------------------------- *)
\* where a task is inside run's while loop, and inside set_gradient's for loop
LoopPCs == {"loop", "loop_wait", "seg_start", "seg_iter", "seg_sleep", "seg_end"}

SegPCs == {"seg_iter", "seg_sleep", "seg_end"}

\* (variant: the settings are stored before the pipeline runs)
ResetBegin_stores_config_first(t) ==
  /\ At(t, "reset")
  /\ \E raises \in BOOLEAN :
       IF raises
         THEN /\ task' = [task EXCEPT ![t] = Ended]
              /\ cur' = 0
              /\ config' = task[t].arg
              /\ UNCHANGED lock
         ELSE LET e == Enter(lock, t, "reset") IN
              /\ task' = [task EXCEPT ![t].newcolors = Pipeline(task[t].arg),
                                      ![t].pc = e.pc]
              /\ lock' = e.lock
              /\ cur' = e.cur
              /\ UNCHANGED config
  /\ UNCHANGED <<lib, effect_cache, nEffects, running, colors, rgb, hist>>

\* Effect.reset up to its critical section: the colour pipeline, which may
\* raise (a getter, a filter or the extraction fails), then `async with self.lock`
ResetBegin(t) ==
  /\ At(t, "reset")
  /\ \E raises \in BOOLEAN :
       IF raises
         THEN /\ task' = [task EXCEPT ![t] = Ended]
              /\ cur' = 0
              /\ UNCHANGED lock
         ELSE LET e == Enter(lock, t, "reset") IN
              /\ task' = [task EXCEPT ![t].newcolors = Pipeline(task[t].arg),
                                      ![t].pc = e.pc]
              /\ lock' = e.lock
              /\ cur' = e.cur
  /\ UNCHANGED <<lib, effect_cache, nEffects, running, colors, config, rgb, hist>>

\* (variant: reset also marks the engine as running)
ResetInstall_sets_running(t) ==
  /\ At(t, "reset_cs")
  /\ colors' = Cycle(task[t].newcolors)
  /\ config' = task[t].arg
  /\ hist' = [cycleFrom |-> task[t].arg]
  /\ lock' = Released(lock)
  /\ running' = TRUE
  /\ task' = [task EXCEPT ![t].pc = "reset_ret", ![t].newcolors = <<>>,
                          ![t].resetArg = task[t].arg]
  /\ UNCHANGED <<lib, effect_cache, nEffects, rgb, cur>>

\* (variant: reset replaces the settings but keeps a cycle that is in use)
ResetInstall_keeps_cycle(t) ==
  /\ At(t, "reset_cs")
  /\ colors' = IF CycleEmpty(colors) THEN Cycle(task[t].newcolors) ELSE colors
  /\ config' = task[t].arg
  /\ hist' = IF CycleEmpty(colors) THEN [cycleFrom |-> task[t].arg] ELSE hist
  /\ lock' = Released(lock)
  /\ task' = [task EXCEPT ![t].pc = "reset_ret", ![t].newcolors = <<>>,
                          ![t].resetArg = task[t].arg]
  /\ UNCHANGED <<lib, effect_cache, nEffects, running, rgb, cur>>

\* the critical section of reset: self.colors = cycle(colors); self.config = config
ResetInstall(t) ==
  /\ At(t, "reset_cs")
  /\ colors' = Cycle(task[t].newcolors)
  /\ config' = task[t].arg
  /\ hist' = [cycleFrom |-> task[t].arg]
  /\ lock' = Released(lock)
  /\ task' = [u \in Tasks |->
                IF u = t THEN [task[u] EXCEPT !.pc = "reset_ret", !.newcolors = <<>>,
                                              !.resetArg = task[t].arg]
                ELSE IF task[u].pc \in LoopPCs THEN [task[u] EXCEPT !.seg.stale = TRUE]
                ELSE task[u]]
  /\ UNCHANGED <<lib, effect_cache, nEffects, running, rgb, cur>>

\* reset returns: to run (which goes on to set running) or to the caller
ResetReturn(t) ==
  /\ At(t, "reset_ret")
  /\ IF task[t].branch = "run"
       THEN /\ task' = [task EXCEPT ![t].pc = "run"]
            /\ UNCHANGED cur
       ELSE /\ task' = [task EXCEPT ![t] = Ended]
            /\ cur' = 0
  /\ UNCHANGED <<lib, effect_cache, nEffects, engine>>

(* ------------------------------- run ---------------------------------- *)
\* run after its reset: async with self.lock
RunBegin(t) ==
  /\ At(t, "run")
  /\ LET e == Enter(lock, t, "run") IN
       /\ task' = [task EXCEPT ![t].pc = e.pc]
       /\ lock' = e.lock
       /\ cur' = e.cur
  /\ UNCHANGED <<lib, effect_cache, nEffects, running, colors, config, rgb, hist>>

\* self.running = True, and the block ends
RunSetRunning(t) ==
  /\ At(t, "run_cs")
  /\ running' = TRUE
  /\ lock' = Released(lock)
  /\ task' = [task EXCEPT ![t].pc = "loop"]
  /\ UNCHANGED <<lib, effect_cache, nEffects, colors, config, rgb, hist, cur>>

\* (variant: while True)
RunLoopTest_ignores_flag(t) ==
  /\ At(t, "loop")
  /\ LET e == Enter(lock, t, "loop") IN
       /\ task' = [task EXCEPT ![t].pc = e.pc]
       /\ lock' = e.lock
       /\ cur' = e.cur
  /\ UNCHANGED <<lib, effect_cache, nEffects, running, colors, config, rgb, hist>>

\* while self.running: async with self.lock; after the loop self.running = False
RunLoopTest(t) ==
  /\ At(t, "loop")
  /\ IF running
       THEN LET e == Enter(lock, t, "loop") IN
            /\ task' = [task EXCEPT ![t].pc = e.pc]
            /\ lock' = e.lock
            /\ cur' = e.cur
            /\ UNCHANGED running
       ELSE /\ running' = FALSE
            /\ task' = [task EXCEPT ![t] = Ended]
            /\ cur' = 0
            /\ UNCHANGED lock
  /\ UNCHANGED <<lib, effect_cache, nEffects, colors, config, rgb, hist>>

\* (variant: the exception leaves run() with the lock still held)
Raise_keeps_lock(t) ==
  /\ lock' = lock
  /\ cur' = 0

\* an exception leaves the `async with` block (the lock is released) and run()
Raise(t) ==
  /\ lock' = Released(lock)
  /\ cur' = 0

\* (variant: the settings run() was started with are used for the whole run)
SegSettings_cached(t) == Cfg(task[t].arg)

\* self.config.steps, self.config.pause_after_fade, self.config.interval as
\* read for one call of set_gradient
SegSettings(t) == Cfg(config)

\* the cached property Effect.rgb: the instance cached by an earlier access;
\* otherwise RuntimeError when the Effect has no config, or hw.RGB for the
\* address of the settings, which raises when the server cannot be reached
rgb_property(connects) ==
  IF rgb # 0 THEN [raises |-> FALSE, value |-> rgb]
  ELSE IF config = 0 THEN [raises |-> TRUE, value |-> 0]
  ELSE IF connects THEN [raises |-> FALSE, value |-> Cfg(config).address]
  ELSE [raises |-> TRUE, value |-> 0]

\* the call set_gradient(self.rgb, self.colors, self.config.steps, ...) up to
\* the gradient loop: the arguments are read, the endpoints are drawn
SegStart(t) ==
  /\ At(t, "seg_start")
  /\ \E connects \in BOOLEAN :
       IF rgb_property(connects).raises
         THEN \* nothing is cached
              /\ Raise(t)
              /\ task' = [task EXCEPT ![t] = Ended]
              /\ UNCHANGED <<rgb, colors>>
         ELSE /\ (rgb # 0) => connects
              /\ rgb' = rgb_property(connects).value
              /\ IF CycleEmpty(colors)
                   THEN \* next() on an empty cycle
                        /\ Raise(t)
                        /\ task' = [task EXCEPT ![t] = Ended]
                        /\ UNCHANGED colors
                   ELSE LET g == get_gradient_colors(colors, task[t].stop_color) IN
                        /\ colors' = g.cycle
                        /\ task' = [u \in Tasks |->
                              IF u = t
                                THEN [task[u] EXCEPT
                                        !.pc = "seg_iter",
                                        !.seg = [start |-> g.start, stop |-> g.stop,
                                                 steps |-> SegSettings(t).steps,
                                                 pause |-> SegSettings(t).pause_after_fade,
                                                 interval |-> SegSettings(t).interval,
                                                 i |-> 1, prev |-> None,
                                                 stale |-> FALSE,
                                                 pushed |-> <<>>, sleeps |-> <<>>]]
                              ELSE IF task[u].pc \in LoopPCs
                                THEN [task[u] EXCEPT !.seg.stale = TRUE]
                              ELSE task[u]]
                        /\ UNCHANGED <<lock, cur>>
  /\ UNCHANGED <<lib, effect_cache, nEffects, running, config, hist>>

SegColor(t) == GradientAt(task[t].seg.start, task[t].seg.stop, task[t].seg.steps, task[t].seg.i)

\* (variant: every position is pushed)
Pushes_always(color, previous_color) == TRUE

\* if color != previous_color
Pushes(color, previous_color) == color # previous_color

\* end_wait = pause_after_fade / 2 (the pauses of the inputs are even)
end_wait(pause_after_fade) == pause_after_fade \div 2

\* (variant: every sleep is the interval)
SleepTime_always_interval(color, start, stop, pause_after_fade, interval) == interval

\* sleep(end_wait if color in end_colors and pause_after_fade else interval)
SleepTime(color, start, stop, pause_after_fade, interval) ==
  IF color \in {start, stop} /\ pause_after_fade # 0
    THEN end_wait(pause_after_fade) ELSE interval

\* one position of the gradient: push unless unchanged, then sleep
SegPush(t) ==
  /\ At(t, "seg_iter")
  /\ \E written \in BOOLEAN :
       IF Pushes(SegColor(t), task[t].seg.prev) /\ ~written
         THEN \* rgb.set_color raises
              /\ Raise(t)
              /\ task' = [task EXCEPT ![t] = Ended]
         ELSE /\ written
              /\ task' = [task EXCEPT
                    ![t].pc = "seg_sleep",
                    ![t].seg.pushed = IF Pushes(SegColor(t), task[t].seg.prev)
                                        THEN Append(@, SegColor(t)) ELSE @,
                    ![t].seg.sleeps = Append(@, SleepTime(SegColor(t), task[t].seg.start,
                                                          task[t].seg.stop, task[t].seg.pause,
                                                          task[t].seg.interval))]
              /\ cur' = 0
              /\ UNCHANGED <<lock>>
  /\ UNCHANGED <<lib, effect_cache, nEffects, running, colors, config, rgb, hist>>

\* the sleep returns: previous_color = color, next position
SleepReturn(t) ==
  /\ cur = 0 /\ task[t].pc = "seg_sleep"
  /\ cur' = t
  /\ task' = [task EXCEPT ![t].seg.prev = SegColor(t),
                          ![t].seg.i = IF @ < task[t].seg.steps THEN @ + 1 ELSE @,
                          ![t].pc = IF task[t].seg.i < task[t].seg.steps
                                      THEN "seg_iter" ELSE "seg_end"]
  /\ UNCHANGED <<lib, effect_cache, nEffects, engine>>

\* (variant: the start colour is returned)
set_gradient_result_start(g) == g.start

\* return end_colors[1]
set_gradient_result(g) == g.stop

\* stop_color = await set_gradient(...); the `async with` block ends
SegEnd(t) ==
  /\ At(t, "seg_end")
  /\ task' = [task EXCEPT ![t].stop_color = set_gradient_result(task[t].seg),
                          ![t].seg = [NoSeg EXCEPT !.stale = task[t].seg.stale],
                          ![t].pc = "loop"]
  /\ lock' = Released(lock)
  /\ UNCHANGED <<lib, effect_cache, nEffects, running, colors, config, rgb, hist, cur>>

(* ------------------------------- stop --------------------------------- *)
\* (variant: stop flips the flag)
StopSetFlag_toggles(t) ==
  /\ At(t, "stop_cs")
  /\ running' = ~running
  /\ lock' = Released(lock)
  /\ task' = [task EXCEPT ![t].pre = running, ![t].pc = "stop_ret"]
  /\ UNCHANGED <<lib, effect_cache, nEffects, colors, config, rgb, hist, cur>>

\* async with self.lock: self.running = False
StopSetFlag(t) ==
  /\ At(t, "stop_cs")
  /\ running' = FALSE
  /\ lock' = Released(lock)
  /\ task' = [u \in Tasks |->
                IF u = t THEN [task[u] EXCEPT !.pre = running, !.pc = "stop_ret"]
                ELSE IF task[u].pc \in LoopPCs THEN [task[u] EXCEPT !.sawStop = TRUE]
                ELSE task[u]]
  /\ UNCHANGED <<lib, effect_cache, nEffects, colors, config, rgb, hist, cur>>

StopReturn(t) ==
  /\ At(t, "stop_ret")
  /\ task' = [task EXCEPT ![t] = Ended]
  /\ cur' = 0
  /\ UNCHANGED <<lib, effect_cache, nEffects, engine>>

(* --------------------------- specification ---------------------------- *)
Next ==
  \/ \E t \in Tasks, a \in InputIds : PluginCall(t, a)
  \/ \E t \in Tasks, a \in InputIds : ResetCall(t, a)
  \/ \E t \in Tasks : StopCall(t)
  \/ CacheClear
  \/ \E t \in Tasks : LockResume(t)
  \/ \E t \in Tasks : ResetBegin(t)
  \/ \E t \in Tasks : ResetInstall(t)
  \/ \E t \in Tasks : ResetReturn(t)
  \/ \E t \in Tasks : RunBegin(t)
  \/ \E t \in Tasks : RunSetRunning(t)
  \/ \E t \in Tasks : RunLoopTest(t)
  \/ \E t \in Tasks : SegStart(t)
  \/ \E t \in Tasks : SegPush(t)
  \/ \E t \in Tasks : SleepReturn(t)
  \/ \E t \in Tasks : SegEnd(t)
  \/ \E t \in Tasks : StopSetFlag(t)
  \/ \E t \in Tasks : StopReturn(t)

Spec == Init /\ [][Next]_vars

\* what the event loop does for call t once it has been made: it resumes the
\* call when its lock waiter was woken or its sleep is over, and runs it to
\* its next suspension
TaskStep(t) ==
  \/ LockResume(t)
  \/ ResetBegin(t)
  \/ ResetInstall(t)
  \/ ResetReturn(t)
  \/ RunBegin(t)
  \/ RunSetRunning(t)
  \/ RunLoopTest(t)
  \/ SegStart(t)
  \/ SegPush(t)
  \/ SleepReturn(t)
  \/ SegEnd(t)
  \/ StopSetFlag(t)
  \/ StopReturn(t)

\* asyncio runs every ready task and every sleep returns; nothing obliges the
\* host to make a call
Fairness == \A t \in Tasks : WF_vars(TaskStep(t))

\* the liveness runs: the host calls with one configuration (neither the lock
\* nor the loop test reads the colours or the settings), which leaves room for
\* more calls
LiveInputs == {1}

FairNext ==
  \/ \E t \in Tasks, a \in LiveInputs : PluginCall(t, a)
  \/ \E t \in Tasks, a \in LiveInputs : ResetCall(t, a)
  \/ \E t \in Tasks : StopCall(t)
  \/ CacheClear
  \/ \E t \in Tasks : TaskStep(t)

FairSpec == Init /\ [][FairNext]_vars /\ Fairness

(* ---------------------------- ensure_range ---------------------------- *)
Values == 0..MaxValue

\* the `error` argument: <<>> is None (the default), otherwise the text given
\* (the empty text is a text)
NoError == <<>>

ErrorTexts == {NoError, <<"">>, <<"This is a test">>}

\* f"Value {value!r} is out of range {value_range!r}"
RangeMessage(value, lo, hi) == <<"Value ", value, " is out of range ", <<lo, hi>>>>

\* a call ensure_range(value, (lo, hi), error) is about to be made
RangeInit ==
  /\ EngineInit
  /\ openrgb_client = NoClient
  /\ colors_call = NoColors
  /\ \E v \in Values, l \in Values, h \in Values, e \in ErrorTexts :
       range_call = [pc |-> "called", value |-> v, lo |-> l, hi |-> h,
                     error |-> e, exc |-> <<>>]

\* the body of ensure_range: return None, or raise ValueError(error)
EnsureRange ==
  /\ range_call.pc = "called"
  /\ range_call' =
       IF ensure_range(range_call.value, range_call.lo, range_call.hi)
         THEN [range_call EXCEPT !.pc = "returned"]
         ELSE [range_call EXCEPT
                 !.pc = "raised",
                 !.exc = IF range_call.error = NoError
                           THEN RangeMessage(range_call.value, range_call.lo, range_call.hi)
                           ELSE range_call.error]
  /\ UNCHANGED <<effect_cache, nEffects, engine, cur, task, openrgb_client, colors_call>>

RangeNext == EnsureRange

RangeSpec == RangeInit /\ [][RangeNext]_vars

(* ------------------------- hardware.make_client ----------------------- *)
\* a device as the OpenRGB server reports it: its LEDs, its mode, and per zone
\* the size it has and the number of resize calls it got
Device(leds, nzones) ==
  [leds |-> leds, mode |-> "Static",
   zones |-> [z \in 1..nzones |-> 0], resized |-> [z \in 1..nzones |-> 0]]

DeviceKinds == {Device(l, n) : l \in 1..MaxLeds, n \in 0..MaxZones}

DeviceLists ==
  UNION {[1..k -> DeviceKinds] : k \in 0..MaxDevices}

\* OpenRGBClient(address, port) has connected: openrgb_client.ee_devices
ClientInit ==
  /\ EngineInit
  /\ range_call = NoCall
  /\ colors_call = NoColors
  /\ \E ds \in DeviceLists :
       openrgb_client = [pc |-> "devices", devices |-> ds, i |-> 1]

\* (variant: the zones are resized to the number of zones)
resize_device_zones_to_zone_count(device) ==
  [device EXCEPT !.zones = [z \in DOMAIN device.zones |-> Len(device.zones)],
                 !.resized = [z \in DOMAIN device.zones |-> device.resized[z] + 1]]

\* resize_device_zones(device): size = len(device.leds); zone.resize(size) for
\* every zone
resize_device_zones(device) ==
  [device EXCEPT !.zones = [z \in DOMAIN device.zones |-> device.leds],
                 !.resized = [z \in DOMAIN device.zones |-> device.resized[z] + 1]]

\* one turn of make_client's loop: device.set_mode("Direct"), then the resize
MakeClientDevice ==
  /\ openrgb_client.pc = "devices"
  /\ openrgb_client.i <= Len(openrgb_client.devices)
  /\ openrgb_client' =
       [openrgb_client EXCEPT
          !.devices[openrgb_client.i] = resize_device_zones([@ EXCEPT !.mode = "Direct"]),
          !.i = @ + 1]
  /\ UNCHANGED <<effect_cache, nEffects, engine, cur, task, range_call, colors_call>>

\* return openrgb_client
MakeClientReturn ==
  /\ openrgb_client.pc = "devices"
  /\ openrgb_client.i > Len(openrgb_client.devices)
  /\ openrgb_client' = [openrgb_client EXCEPT !.pc = "returned"]
  /\ UNCHANGED <<effect_cache, nEffects, engine, cur, task, range_call, colors_call>>

ClientNext == MakeClientDevice \/ MakeClientReturn

ClientSpec == ClientInit /\ [][ClientNext]_vars

(* -------------------------- colorlib.get_colors ------------------------ *)
\* the colours a pixel or a shape can have
PixelColors == {RED, BLUE}

\* the files get_colors can be pointed at: a raster image (its pixels), an SVG
\* drawing (its shapes, each a fill and the pixels it covers when rendered), a
\* file that is neither an image nor XML, and a name with no file behind it
RasterFiles ==
  {[kind |-> "raster", pixels |-> px] :
     px \in UNION {[1..n -> PixelColors] : n \in 1..MaxPixels}}

Shapes == [fill : PixelColors, width : 1..MaxWidth]

SvgFiles ==
  {[kind |-> "svg", shapes |-> sh] :
     sh \in UNION {[1..n -> Shapes] : n \in 1..MaxShapes}}

Files == RasterFiles \cup SvgFiles \cup {[kind |-> "junk"], [kind |-> "missing"]}

\* the exceptions of this function: the decoder's error names the file it was
\* opening
UnidentifiedImageError(name) == <<"PIL.UnidentifiedImageError", name>>

ParseError == <<"ElementTree.ParseError">>

FileNotFoundError == <<"FileNotFoundError">>

\* cairosvg.svg2png: the shapes rendered left to right, each over its width
RECURSIVE svg2png(_)
svg2png(shapes) ==
  IF shapes = <<>> THEN <<>>
  ELSE [k \in 1..Head(shapes).width |-> Head(shapes).fill] \o svg2png(Tail(shapes))

\* convert_svg_to_png(svg_fn): the PNG bytes of the drawing
convert_svg_to_png(file) == svg2png(file.shapes)

\* the distinct colours of a pixel row, in the order they first appear
RECURSIVE Distinct(_)
Distinct(px) ==
  IF px = <<>> THEN <<>>
  ELSE LET rest == Distinct(SubSeq(px, 1, Len(px) - 1))
           last == px[Len(px)]
       IN  IF \E k \in DOMAIN rest : rest[k] = last THEN rest ELSE Append(rest, last)

\* ColorThief.get_palette(color_count, quality): every quality-th pixel is
\* sampled; the quantiser returns the colours it found, up to one more than
\* asked for (the test asks for 3 and gets 4)
get_palette(image, color_count, quality) ==
  LET n       == (Len(image) + quality - 1) \div quality
      sampled == [k \in 1..n |-> image[(k - 1) * quality + 1]]
      found   == Distinct(sampled)
  IN  SubSeq(found, 1, IF Len(found) < color_count + 1 THEN Len(found) ELSE color_count + 1)

\* a call get_colors(input_fn, color_count, quality) is about to be made
ColorsInit ==
  /\ EngineInit
  /\ range_call = NoCall
  /\ openrgb_client = NoClient
  /\ \E f \in Files, c \in 1..MaxCount, q \in 1..MaxQuality :
       colors_call = [NoColors EXCEPT !.pc = "called", !.file = f,
                                      !.color_count = c, !.quality = q]

\* get_color_thief, try: return ColorThief(filename). The decoder opens a
\* raster; a file it cannot identify raises PIL.UnidentifiedImageError, which
\* the except clause catches; any other error leaves the function
ColorThiefOpen ==
  /\ colors_call.pc = "called"
  /\ colors_call' =
       CASE colors_call.file.kind = "raster" ->
              [colors_call EXCEPT !.pc = "thief",
                                  !.thief = [name |-> "input", image |-> colors_call.file.pixels]]
         [] colors_call.file.kind = "missing" ->
              [colors_call EXCEPT !.pc = "raised", !.exc = FileNotFoundError]
         [] OTHER ->
              [colors_call EXCEPT !.pc = "fallback",
                                  !.caught = UnidentifiedImageError("input")]
  /\ UNCHANGED <<effect_cache, nEffects, engine, cur, task, range_call, openrgb_client>>

\* (variant: the parse error of the conversion is what leaves the function)
ConvertSvg_raises_parse_error ==
  /\ colors_call.pc = "fallback"
  /\ colors_call' =
       IF colors_call.file.kind = "svg"
         THEN [colors_call EXCEPT !.pc = "written", !.conversions = @ + 1,
                                  !.tmp = convert_svg_to_png(colors_call.file)]
         ELSE [colors_call EXCEPT !.pc = "raised", !.conversions = @ + 1,
                                  !.exc = ParseError]
  /\ UNCHANGED <<effect_cache, nEffects, engine, cur, task, range_call, openrgb_client>>

\* the except clause: tmp.write(convert_svg_to_png(filename)) into a temporary
\* file; on ElementTree.ParseError, raise unidentified_image_error
ConvertSvg ==
  /\ colors_call.pc = "fallback"
  /\ colors_call' =
       IF colors_call.file.kind = "svg"
         THEN [colors_call EXCEPT !.pc = "written", !.conversions = @ + 1,
                                  !.tmp = convert_svg_to_png(colors_call.file)]
         ELSE [colors_call EXCEPT !.pc = "raised", !.conversions = @ + 1,
                                  !.exc = colors_call.caught]
  /\ UNCHANGED <<effect_cache, nEffects, engine, cur, task, range_call, openrgb_client>>

\* return ColorThief(tmp.name): the decoder opens the temporary file, and the
\* with block removes the file's name while the decoder keeps it open
ColorThiefOnTmp ==
  /\ colors_call.pc = "written"
  /\ colors_call' = [colors_call EXCEPT !.pc = "thief", !.tmp = <<>>,
                                        !.thief = [name |-> "tmp", image |-> colors_call.tmp]]
  /\ UNCHANGED <<effect_cache, nEffects, engine, cur, task, range_call, openrgb_client>>

\* get_colors: [Color(*rgb) for rgb in color_thief.get_palette(color_count, quality)]
GetColorsReturn ==
  /\ colors_call.pc = "thief"
  /\ colors_call' =
       [colors_call EXCEPT
          !.pc = "returned",
          !.palette = get_palette(colors_call.thief.image, colors_call.color_count,
                                  colors_call.quality)]
  /\ UNCHANGED <<effect_cache, nEffects, engine, cur, task, range_call, openrgb_client>>

ColorsNext == ColorThiefOpen \/ ConvertSvg \/ ColorThiefOnTmp \/ GetColorsReturn

ColorsSpec == ColorsInit /\ [][ColorsNext]_vars

(* ------------------------------ properties ---------------------------- *)
Range(f) == {f[i] : i \in DOMAIN f}

ResetPCs == {"reset", "reset_wait", "reset_cs", "reset_ret"}

RunPCs == {"run", "run_wait", "run_cs"} \cup LoopPCs

\* the colour the cycle yielded last
CycleLast(c) == c.list[((c.pos + Len(c.list) - 1) % Len(c.list)) + 1]

\* C1: while the run loop is pushing a colour or is in a pacing sleep it does
\* not hold the engine lock (so reset and stop need not wait for the segment)
C1_LockFreeInsideSegment ==
  \A t \in Tasks : task[t].pc \in {"seg_iter", "seg_sleep"} => lock.holder # t

\* C2: a reset issued inside a segment does not raise and leaves the segment's
\* endpoints and settings alone; a segment begun after the last completed reset
\* has that reset's steps, interval and pause, and its stop colour is the one
\* drawn last from that reset's cycle
C2_SegmentUsesLastReset ==
  \A t \in Tasks :
    (task[t].pc \in SegPCs /\ ~task[t].seg.stale) =>
      /\ hist.cycleFrom # 0
      /\ task[t].seg.steps = Cfg(hist.cycleFrom).steps
      /\ task[t].seg.interval = Cfg(hist.cycleFrom).interval
      /\ task[t].seg.pause = Cfg(hist.cycleFrom).pause_after_fade
      /\ colors.list = Pipeline(hist.cycleFrom)
      /\ task[t].seg.stop = CycleLast(colors)

C2_SegmentUntouched ==
  \A t \in Tasks :
    /\ (task[t].pc \in SegPCs /\ task'[t].pc \in SegPCs) =>
         /\ task'[t].seg.start = task[t].seg.start
         /\ task'[t].seg.stop = task[t].seg.stop
         /\ task'[t].seg.steps = task[t].seg.steps
         /\ task'[t].seg.interval = task[t].seg.interval
         /\ task'[t].seg.pause = task[t].seg.pause
    /\ (task[t].pc \in {"reset_wait", "reset_cs"}) => task'[t].pc \in ResetPCs

C2_ResetTakesEffectAtNextSegment ==
  [](C2_SegmentUsesLastReset) /\ [][C2_SegmentUntouched]_vars

\* a loop started with input 1 is in its first segment after a reset to
\* input 2: three steps, from the old stop colour to the new list's first
C2_Witness ==
  \E t \in PluginTasks :
    /\ task[t].pc = "seg_sleep" /\ task[t].arg = 1 /\ hist.cycleFrom = 2
    /\ task[t].seg.steps = 5 /\ task[t].seg.pause = 20
    /\ task[t].seg.start = GREEN /\ task[t].seg.stop = BLUE
    /\ colors.pos = 1

\* C3: once stop() has returned, the run loop begins no further call of
\* set_gradient
C3_NoSegmentAfterStop ==
  [][\A t \in Tasks :
       task[t].sawStop => ~(task[t].pc = "seg_start" /\ task'[t].pc # "seg_start")]_vars

\* C4: at most one run() invocation is inside its loop on the engine
C4_AtMostOneRunLoop ==
  Cardinality({t \in Tasks : task[t].pc \in LoopPCs}) <= 1

\* C5: plugin calls run exactly once, and not reset, when is_alive() was false,
\* and reset exactly once, and not run, when it was true
C5_PluginDispatch ==
  \A t \in PluginTasks :
    (task[t].pc \notin {"unused", "done"}) =>
      /\ task[t].called = << IF task[t].alive THEN "reset" ELSE "run" >>
      /\ task[t].alive => task[t].pc \in ResetPCs
      /\ ~task[t].alive => task[t].pc \in ResetPCs \cup RunPCs \cup SegPCs

\* one plugin call found the engine stopped and runs it, a second one found
\* it running and is resetting it
C5_Witness ==
  \E t, u \in PluginTasks :
    /\ ~task[t].alive /\ task[t].called = <<"run">> /\ task[t].pc = "seg_sleep"
    /\ task[u].alive /\ task[u].called = <<"reset">> /\ task[u].pc = "reset_wait"

\* C6: get_effect constructs an Effect only when its cache is empty and hands
\* the cached instance to every call; only cache_clear empties the cache
C6_OneEngine ==
  \A t \in Tasks : task[t].eff # 0 => task[t].eff = effect_cache

C6_CacheStep ==
  /\ effect_cache # 0 => (effect_cache' \in {effect_cache, 0} /\ nEffects' = nEffects)
  /\ effect_cache = 0 => \/ effect_cache' = 0 /\ nEffects' = nEffects
                         \/ effect_cache' = nEffects + 1 /\ nEffects' = nEffects + 1
  /\ \A t \in Tasks : (task[t].eff = 0 /\ task'[t].eff # 0) => task'[t].eff = effect_cache'

C6_GetEffectSingleton ==
  [](C6_OneEngine) /\ [][C6_CacheStep]_vars

\* after cache_clear a second Effect was constructed and two calls share it
C6_Witness ==
  /\ nEffects = 2 /\ effect_cache = 2
  /\ \E t, u \in Tasks : t # u /\ task[t].eff = 2 /\ task[u].eff = 2

\* C7: a call of run has carried out reset with its own arguments before it
\* sets running and before any segment, so the settings are set and the cycle
\* is an installed one
C7_RunResetsFirst ==
  \A t \in PluginTasks :
    (task[t].branch = "run" /\ task[t].pc \in RunPCs \cup SegPCs) =>
      /\ task[t].arg # 0
      /\ task[t].resetArg = task[t].arg
      /\ config # 0
      /\ hist.cycleFrom # 0

\* a run started with input 2 is in a segment of input 2's colours
C7_Witness ==
  \E t \in PluginTasks :
    /\ task[t].branch = "run" /\ task[t].pc = "seg_sleep"
    /\ task[t].arg = 2 /\ task[t].resetArg = 2
    /\ task[t].seg.start = BLUE /\ task[t].seg.stop = RED

\* C8: no step of reset changes running, and a call of reset never enters run
C8_ResetNeverRuns ==
  \A t \in Tasks :
    (t \in ResetTasks \/ task[t].branch = "reset") => task[t].pc \notin RunPCs \cup SegPCs

C8_ResetStep ==
  \A t \in Tasks :
    (task[t].pc \in ResetPCs /\ task'[t].pc # task[t].pc) => running' = running

C8_ResetKeepsRunning ==
  [](C8_ResetNeverRuns) /\ [][C8_ResetStep]_vars

\* a direct reset has just replaced the cycle of a stopped engine
C8_Witness ==
  \E t \in ResetTasks :
    /\ task[t].pc = "reset_ret" /\ ~running
    /\ \A u \in Tasks : task[u].pc \notin RunPCs \cup SegPCs

\* C9: when reset returns, the settings are the given config and the cycle is
\* a fresh one over the pipeline's colours; the two are replaced together
C9_ResetReplacesBoth ==
  /\ \A t \in Tasks :
       task[t].pc = "reset_ret" =>
         /\ config = task[t].arg
         /\ colors = Cycle(Pipeline(task[t].arg))
  /\ config = hist.cycleFrom
  /\ config # 0 => colors.list = Pipeline(config)

\* a reset to input 2 has replaced the cycle of an engine running input 1
C9_Witness ==
  \E t, u \in Tasks :
    /\ task[t].pc = "reset_ret" /\ task[t].arg = 2
    /\ task[u].pc \in LoopPCs /\ task[u].arg = 1
    /\ colors = Cycle(<<BLUE, RED, GREEN>>)

\* C10: when stop returns running is false, whatever it was before
C10_StopClearsRunning ==
  \A t \in StopTasks : task[t].pc = "stop_ret" => ~running

\* stop returns on an engine whose loop was running
C10_Witness ==
  \E t \in StopTasks, u \in PluginTasks :
    /\ task[t].pc = "stop_ret" /\ task[t].pre
    /\ task[u].pc \in LoopPCs

\* C11: running goes from false to true only in run's startup block and from
\* true to false only in stop or at the exit of run's loop; no step of stop,
\* reset or plugin's is_alive test sets it to true (a newly constructed Effect
\* starts with running false)
C11_RunningStep ==
  (nEffects' = nEffects) =>
    /\ (~running /\ running') =>
         \E t \in PluginTasks :
           task[t].branch = "run" /\ task[t].pc = "run_cs" /\ task'[t].pc = "loop"
    /\ (running /\ ~running') =>
         \E t \in Tasks :
           \/ t \in StopTasks /\ task[t].pc = "stop_cs" /\ task'[t].pc = "stop_ret"
           \/ task[t].branch = "run" /\ task[t].pc = "loop" /\ task'[t].pc = "done"

C11_RunningTransitions == [][C11_RunningStep]_vars

\* an engine that run started has been stopped while its loop is still there
C11_Witness ==
  /\ ~running
  /\ \E t \in PluginTasks : task[t].pc \in LoopPCs /\ task[t].sawStop
  /\ \A u \in StopTasks : task[u].pc = "done"

\* the colour at position k (from 0) of the cycle's list, wrapping
ListAt(c, k) == c.list[(k % Len(c.list)) + 1]

\* C12: without a previous stop colour get_gradient_colors returns the next
\* two colours of the cycle and moves the cursor by two; with one it returns
\* that colour and the next colour of the cycle and moves the cursor by one;
\* the cursor wraps after the last colour
C12_EndpointsStep ==
  \A t \in Tasks :
    (task[t].pc = "seg_start" /\ task'[t].pc = "seg_iter") =>
      /\ colors'.list = colors.list
      /\ IF task[t].stop_color = None
           THEN /\ task'[t].seg.start = ListAt(colors, colors.pos)
                /\ task'[t].seg.stop = ListAt(colors, colors.pos + 1)
                /\ colors'.pos = (colors.pos + 2) % Len(colors.list)
           ELSE /\ task'[t].seg.start = task[t].stop_color
                /\ task'[t].seg.stop = ListAt(colors, colors.pos)
                /\ colors'.pos = (colors.pos + 1) % Len(colors.list)

C12_GradientEndpoints == [][C12_EndpointsStep]_vars

\* the third segment over [BLUE, RED, GREEN]: after (BLUE, RED) and
\* (RED, GREEN) the endpoints are (GREEN, BLUE), the cycle has wrapped
C12_Witness ==
  \E t \in PluginTasks :
    /\ task[t].pc \in SegPCs /\ task[t].arg = 2 /\ hist.cycleFrom = 2
    /\ colors.list = <<BLUE, RED, GREEN>> /\ colors.pos = 1
    /\ task[t].seg.start = GREEN /\ task[t].seg.stop = BLUE

\* the colour at position k of the segment a call of set_gradient works on
ColorAt(g, k) == GradientAt(g.start, g.stop, g.steps, k)

\* C13: a segment sleeps once per position, after the position's push; the
\* sleep is half the pause when the colour is one of the two endpoints and the
\* pause is positive, and the interval otherwise; with 5 steps, interval 6,
\* pause 20 and distinct endpoints the sleeps are 10, 6, 6, 6, 10
C13_Pacing ==
  \A t \in Tasks :
    (task[t].pc \in SegPCs) =>
      LET g == task[t].seg IN
      /\ Len(g.sleeps) = IF task[t].pc = "seg_iter" THEN g.i - 1 ELSE g.i
      /\ task[t].pc = "seg_end" => Len(g.sleeps) = g.steps
      /\ task[t].pc = "seg_sleep" => g.pushed # <<>>
      /\ \A k \in 1..Len(g.sleeps) :
           g.sleeps[k] = IF ColorAt(g, k) \in {g.start, g.stop} /\ g.pause > 0
                           THEN g.pause \div 2 ELSE g.interval
      /\ g.pause = 0 => \A k \in 1..Len(g.sleeps) : g.sleeps[k] = g.interval
      /\ (task[t].pc = "seg_end" /\ g.steps = 5 /\ g.interval = 6 /\ g.pause = 20
            /\ g.start # g.stop) => g.sleeps = <<10, 6, 6, 6, 10>>

\* a segment of five steps from BLUE to RED has slept 10, 6, 6, 6, 10
C13_Witness ==
  \E t \in PluginTasks :
    /\ task[t].pc = "seg_end" /\ task[t].seg.start = BLUE /\ task[t].seg.stop = RED
    /\ task[t].seg.steps = 5 /\ task[t].seg.sleeps = <<10, 6, 6, 6, 10>>

\* the positions among 1..n whose colour differs from the one before
Changes(g, n) == {k \in 1..n : k = 1 \/ ColorAt(g, k) # ColorAt(g, k - 1)}

\* C14: a position's colour is pushed exactly when it differs from the colour
\* of the position before it (the first one always is), the sleep is taken at
\* every position, and a segment of one distinct colour pushes it once while
\* sleeping steps times
C14_DuplicateSuppression ==
  \A t \in Tasks :
    (task[t].pc \in {"seg_sleep", "seg_end"}) =>
      LET g == task[t].seg
          P == Changes(g, g.i)
      IN /\ Len(g.sleeps) = g.i
         /\ Len(g.pushed) = Cardinality(P)
         /\ \A k \in P : g.pushed[Cardinality({m \in P : m <= k})] = ColorAt(g, k)
         /\ g.pushed[1] = g.start
         /\ (task[t].pc = "seg_end" /\ g.start = g.stop) =>
              (g.pushed = <<g.start>> /\ Len(g.sleeps) = g.steps)

\* a segment from RED to RED has ended: one push, a sleep per step
C14_Witness ==
  \E t \in PluginTasks :
    /\ task[t].pc = "seg_end" /\ task[t].seg.start = task[t].seg.stop
    /\ task[t].seg.pushed = <<task[t].seg.start>>
    /\ Len(task[t].seg.sleeps) = task[t].seg.steps /\ task[t].seg.steps >= 2

\* C15: when the first access to the device sink raises (no connection is
\* cached and none is made), the failed run leaves the engine stopped:
\* running is false once run has been left
C15_StoppedAfterConnectFailure ==
  [][\A t \in Tasks :
       (task[t].pc = "seg_start" /\ rgb = 0 /\ rgb' = 0 /\ task'[t].pc = "done")
         => ~running']_vars

\* C16: a colour push that raises does not end the run loop: the task that
\* pushes stays inside run's loop
C16_WriteErrorKeepsLoop ==
  [][\A t \in Tasks : task[t].pc = "seg_iter" => task'[t].pc \in LoopPCs]_vars

\* C17: the connection a colour is pushed through is one made for the
\* endpoint of the current settings
C17_PushesGoToCurrentEndpoint ==
  \A t \in Tasks :
    (task[t].pc \in {"seg_iter", "seg_sleep"}) => rgb = Cfg(config).address

\* C18: the engine never installs an empty colour cycle, and the run loop
\* never draws from a cycle without colours
C18_NoEmptyCycle ==
  /\ config # 0 => colors.list # <<>>
  /\ \A t \in Tasks : task[t].pc = "seg_start" => colors.list # <<>>

\* C19: a call whose configuration has an intensity outside [-1, 1] raises in
\* reset's pipeline: it never reaches the critical section, and the settings
\* of the engine never carry such an intensity
C19_IntensityRejected ==
  /\ \A t \in Tasks :
       (task[t].arg # 0 /\ ~ensure_range(Cfg(task[t].arg).intensity, -10, 10))
         => task[t].pc \in {"reset", "done"}
  /\ config # 0 => ensure_range(Cfg(config).intensity, -10, 10)

\* the pipeline's filters on one colour
Filtered(c, x) == Intensify(IF c.pastelize THEN Pastelize(x) ELSE x, c.intensity)

\* C20: when reset returns, the cycle is built from the configured colours, in
\* their order and whatever the host passed, when there are any; otherwise
\* from the first max_palette_size dominant colours of the host's colours
C20_ExplicitColours ==
  \A t \in Tasks :
    task[t].pc = "reset_ret" =>
      LET c  == Cfg(task[t].arg)
          in == Inputs[task[t].arg].colors
      IN /\ c.colors # <<>> =>
              /\ Len(colors.list) = Len(c.colors)
              /\ \A i \in 1..Len(c.colors) : colors.list[i] = Filtered(c, c.colors[i])
         /\ (c.colors # <<>> /\ ~c.pastelize /\ c.intensity = 0) => colors.list = c.colors
         /\ c.colors = <<>> =>
              /\ Len(colors.list) = Min(c.max_palette_size, Len(in))
              /\ \A i \in 1..Len(colors.list) : colors.list[i] = Filtered(c, in[i])

\* a direct reset with three configured colours: the cycle is those three,
\* not the host's colours and not capped at max_palette_size
C20_Witness ==
  \E t \in ResetTasks :
    /\ task[t].pc = "reset_ret" /\ Cfg(task[t].arg).colors # <<>>
    /\ colors.list = Cfg(task[t].arg).colors
    /\ colors.list # Inputs[task[t].arg].colors
    /\ Len(colors.list) > Cfg(task[t].arg).max_palette_size

\* C21: ensure_range returns exactly when lo <= value <= hi, both ends
\* included; otherwise it raises ValueError with the error text when one was
\* given, and with a message naming the value and the range when none was
C21_EnsureRange ==
  LET c == range_call IN
  /\ c.pc = "returned" => (c.lo <= c.value /\ c.value <= c.hi /\ c.exc = <<>>)
  /\ c.pc = "raised" =>
       /\ (c.value < c.lo \/ c.value > c.hi)
       /\ c.error # NoError => c.exc = c.error
       /\ c.error = NoError =>
            c.exc = <<"Value ", c.value, " is out of range ", <<c.lo, c.hi>>>>

\* a value just above the range, no error text: the default message
C21_Witness ==
  /\ range_call.pc = "raised" /\ range_call.error = NoError
  /\ range_call.lo < range_call.hi /\ range_call.value = range_call.hi + 1
  /\ range_call.exc = RangeMessage(range_call.value, range_call.lo, range_call.hi)

\* C30: when make_client returns, every device of the client is in "Direct"
\* mode and each of its zones has been resized once, to the LED count of that
\* device; while the loop runs this holds of the devices it has passed
C30_MakeClient ==
  LET c == openrgb_client
      passed == IF c.pc = "returned" THEN Len(c.devices) ELSE c.i - 1
  IN  c.pc # "none" =>
        \A d \in 1..passed :
          /\ c.devices[d].mode = "Direct"
          /\ \A z \in DOMAIN c.devices[d].zones :
               /\ c.devices[d].zones[z] = c.devices[d].leds
               /\ c.devices[d].resized[z] = 1

\* the client is returned with two devices of different LED counts, each
\* with two zones
C30_Witness ==
  /\ openrgb_client.pc = "returned" /\ Len(openrgb_client.devices) = 2
  /\ openrgb_client.devices[1].leds # openrgb_client.devices[2].leds
  /\ \A d \in 1..2 : openrgb_client.devices[d].zones =
                         <<openrgb_client.devices[d].leds, openrgb_client.devices[d].leds>>

\* C22: an engine that was never reset has no hardware connection, and the
\* access to the device sink that starts a segment returns a connection built
\* from the address of the last successful reset
C22_NoConnectionBeforeReset == config = 0 => rgb = 0

C22_AccessStep ==
  \A t \in Tasks :
    (task[t].pc = "seg_start" /\ task'[t].pc = "seg_iter") =>
      rgb' = Cfg(hist.cycleFrom).address

C22_RgbFromLastReset ==
  [](C22_NoConnectionBeforeReset) /\ [][C22_AccessStep]_vars

\* C23: the colour a segment returns is its stop colour and the next segment
\* starts on it; the first segment of a run draws two colours from the cycle
\* and every later one draws one; when no reset came in between (and no other
\* run drew from the cycle), the stop colour of a segment is the colour that
\* follows the previous stop colour in the palette, wrapping at the end
C23_StartsWherePreviousEnded ==
  \A t \in Tasks :
    (task[t].pc \in SegPCs /\ task[t].stop_color # None) =>
      task[t].seg.start = task[t].stop_color

C23_ChainStep ==
  \A t \in Tasks :
    /\ (task[t].pc = "seg_end" /\ task'[t].pc = "loop") =>
         task'[t].stop_color = task[t].seg.stop
    /\ (task[t].pc = "seg_start" /\ task'[t].pc = "seg_iter") =>
         /\ colors'.pos = (colors.pos + IF task[t].stop_color = None THEN 2 ELSE 1)
                             % Len(colors.list)
         /\ (task[t].stop_color # None /\ ~task[t].seg.stale) =>
              /\ task[t].stop_color = ListAt(colors, colors.pos + Len(colors.list) - 1)
              /\ task'[t].seg.stop = ListAt(colors, colors.pos)

C24_NoRepeatedPush ==
  \A t \in PluginTasks :
    (/\ task[t].pc \in {"seg_sleep", "seg_end"}
     /\ \A u \in Tasks \ {t} : task[u].pc = "unused") =>
      /\ \A k \in 1..(Len(task[t].seg.pushed) - 1) :
           task[t].seg.pushed[k] # task[t].seg.pushed[k + 1]
      /\ task[t].stop_color # None => task[t].seg.pushed[1] # task[t].stop_color

\* the colours on a gradient between two colours of a palette
Span(cs) == {c \in 0..(RED + GREEN + BLUE) :
               \E i, j \in DOMAIN cs : cs[i] <= c /\ c <= cs[j]}

\* C25: a segment that began after the last reset pushes only colours of the
\* palette that reset installed and of gradients between them
C25_OnlyNewColours ==
  \A t \in Tasks :
    (task[t].pc \in {"seg_sleep", "seg_end"} /\ ~task[t].seg.stale) =>
      \A k \in DOMAIN task[t].seg.pushed : task[t].seg.pushed[k] \in Span(colors.list)

\* C28: whenever running is true a call of run is inside its loop on the
\* engine, and a plugin call that takes the reset branch finds such a loop
C28_AliveMeansLoop ==
  /\ running => \E t \in Tasks : task[t].pc \in LoopPCs
  /\ \A t \in PluginTasks :
       (cur = t /\ task[t].pc = "reset" /\ task[t].branch = "reset") =>
         \E u \in Tasks : task[u].pc \in LoopPCs

\* C29: a reset whose pipeline raises changes neither the cycle and its
\* cursor, nor the settings, nor running, nor the connection, nor the lock,
\* nor any other call; a call that has ended neither holds the lock nor waits
\* for it
C29_EndedCallsHoldNothing ==
  \A t \in Tasks :
    task[t].pc = "done" =>
      (lock.holder # t /\ t \notin Range(lock.waiters) /\ t \notin lock.woken)

C29_RaiseStep ==
  \A t \in Tasks :
    (task[t].pc = "reset" /\ task'[t].pc = "done") =>
      /\ colors' = colors /\ config' = config /\ running' = running
      /\ rgb' = rgb /\ lock' = lock /\ hist' = hist
      /\ \A u \in Tasks \ {t} : task'[u] = task[u]

C29_FailedResetChangesNothing ==
  [](C29_EndedCallsHoldNothing) /\ [][C29_RaiseStep]_vars

\* a plugin call made during the first sleep of a run has ended while the
\* run holds the lock, so its reset raised: the run is still in that sleep,
\* with its own settings and its cycle two colours on
C29_Witness ==
  \E t, u \in PluginTasks :
    /\ t < u /\ task[u].pc = "done"
    /\ task[t].pc = "seg_sleep" /\ task[t].seg.i = 1 /\ task[t].stop_color = None
    /\ ~task[t].seg.stale /\ running /\ lock.holder = t
    /\ config = task[t].arg
    /\ colors = [list |-> Pipeline(task[t].arg), pos |-> 2 % Len(Pipeline(task[t].arg))]
    /\ \A v \in Tasks \ {t, u} : task[v].pc = "unused"

\* a call of stop has been made and has not yet cleared the flag, while the
\* engine is running and a call of run is in its loop
StopPending ==
  /\ running
  /\ \E s \in StopTasks : task[s].pc \in {"stop_wait", "stop_cs"}
  /\ \E t \in Tasks : task[t].pc \in LoopPCs

\* no call of run is on its way to its loop
NoRunPending ==
  \A t \in PluginTasks :
    task[t].branch = "run" => task[t].pc \notin ResetPCs \cup {"run", "run_wait", "run_cs"}

\* the plugin calls made so far
PluginCalls == Cardinality({t \in PluginTasks : task[t].pc # "unused"})

\* the engine is stopped: running is false and no call is in run's loop, so
\* nothing pushes a colour
Quiet == ~running /\ \A t \in Tasks : task[t].pc \notin RunPCs

LockedPCs == {"reset_cs", "run_cs", "stop_cs", "seg_start"} \cup SegPCs

\* C27: the lock is only held by a call inside one of its blocks (it is
\* released on every way out, exceptions included), and every reset or stop
\* that waits for the lock gets it and returns, although the loop takes the
\* lock again for every segment
C27_HeldInsideBlocks ==
  lock.locked => task[lock.holder].pc \in LockedPCs

C27_NoStarvation ==
  /\ [](C27_HeldInsideBlocks)
  /\ \A t \in Tasks :
       (task[t].pc \in {"reset_wait", "stop_wait"} /\ task[t].branch # "run")
         ~> (task[t].pc = "done")

\* a stop that waited holds the lock while the loop, which asked for the lock
\* again for its next segment, waits behind it
C27_Witness ==
  \E s \in StopTasks, t \in PluginTasks :
    /\ task[s].pc = "stop_cs" /\ lock.holder = s
    /\ task[t].pc = "loop_wait" /\ lock.waiters # <<>> /\ Head(lock.waiters) = t

\* C31: a file the raster decoder cannot identify gets exactly one SVG
\* conversion, and a file it can identify gets none; when the conversion fails
\* with a parse error the call raises the decoder's error on the input file,
\* not the parse error; when the conversion succeeds the palette returned is the
\* one of the raster the drawing was converted to
C31_ImageFallback ==
  LET c == colors_call IN
  /\ (c.file.kind \in {"svg", "junk"} /\ c.pc \in {"written", "thief", "returned", "raised"})
       => c.conversions = 1
  /\ c.file.kind \in {"raster", "missing"} => c.conversions = 0
  /\ (c.pc = "raised" /\ c.file.kind = "junk")
       => (c.exc = UnidentifiedImageError("input") /\ c.exc # ParseError)
  /\ (c.pc = "returned" /\ c.file.kind = "svg")
       => /\ c.thief.name = "tmp"
          /\ c.palette = get_palette(svg2png(c.file.shapes), c.color_count, c.quality)
  /\ c.pc = "returned" => c.file.kind \in {"raster", "svg"}

\* a drawing of two shapes of different fills was converted and both fills
\* came back as its palette
C31_Witness ==
  /\ colors_call.pc = "returned" /\ colors_call.file.kind = "svg"
  /\ colors_call.conversions = 1
  /\ Len(colors_call.file.shapes) = 2
  /\ colors_call.file.shapes[1].fill # colors_call.file.shapes[2].fill
  /\ colors_call.palette = <<colors_call.file.shapes[1].fill, colors_call.file.shapes[2].fill>>

====
